---- MODULE Spec2Model ----
(***************************************************************************)
(* Model of fast_hadamard_transform_interface.py: the five autograd        *)
(* adapters HadamardTransform{,12N,20N,28N,40N}Fn, their functional        *)
(* wrappers, the reference oracle hadamard_transform_ref, and the compiled *)
(* extension fast_hadamard_transform_cuda they call.  The extension is     *)
(* compiled code whose source is not at hand, so its kernels (size         *)
(* resolver, butterfly core, base-factor kernels, variant composer,        *)
(* padding shim) follow the design document; every such definition is      *)
(* marked "design document" below.  Rows hold integers and scales are      *)
(* integers, so every equality is exact.                                   *)
(***************************************************************************)
EXTENDS Integers, Sequences, FiniteSets, TLC

(***************************************************************************)
(* Bounds of the model.                                                    *)
(***************************************************************************)
\* Rows of length 1..MaxLen are enumerated densely for the base-1 adapter.
MaxLen == 4
\* The size resolver and the oracle's padding are compared on 1..MaxResolveLen.
MaxResolveLen == 130
\* The butterfly core is run concurrently on buffers of length 2^1..2^MaxStages.
MaxStages == 3
\* The variant composer is run on buffers of length base * 2^k, k <= MaxComposeK.
MaxComposeK == 1

\* Entries of the rows and the scales that are tried.
Vals == {-1, 0, 1}
Scales == {1, 2, -3}

\* The base factors of the five adapters.
Bases == {1, 12, 20, 28, 40}

(***************************************************************************)
(* Arithmetic helpers.                                                     *)
(***************************************************************************)
RECURSIVE Pow2(_)
Pow2(k) == IF k = 0 THEN 1 ELSE 2 * Pow2(k - 1)

\* Sum of f[i] for i in lo..hi (f a function on integers).
RECURSIVE SumF(_, _, _)
SumF(f, lo, hi) == IF lo > hi THEN 0 ELSE f[hi] + SumF(f, lo, hi - 1)

\* Rows are TLA+ sequences; At reads the element at 0-based index i.
At(row, i) == row[i + 1]
\* The row of length n whose 0-based element i is f[i].
MkRow(n, f) == [p \in 1..n |-> f[p - 1]]

(***************************************************************************)
(* torch / scipy primitives used by hadamard_transform_ref.                *)
(***************************************************************************)
\* scipy.linalg.hadamard(n)[i][j], Sylvester's construction
\* H_1 = [1], H_2m = [[H_m, H_m], [H_m, -H_m]].
RECURSIVE scipy_hadamard(_, _, _)
scipy_hadamard(n, i, j) ==
    IF n = 1 THEN 1
    ELSE LET h == n \div 2
         IN  (IF i >= h /\ j >= h THEN -1 ELSE 1) * scipy_hadamard(h, i % h, j % h)

\* F.pad(x, (0, amount)): amount zeros appended to the last dimension.
F_pad(x, amount) == x \o [p \in 1..amount |-> 0]

\* The matrix hadamard(n) as a table, rows and columns 0..n-1.
hadamard_matrix(n) == [i \in 0..(n - 1) |-> [j \in 0..(n - 1) |-> scipy_hadamard(n, i, j)]]

\* F.linear(x, W) = x W^T for one row x: out[i] = sum_j x[j] * W[i][j].
F_linear(x, n, W) ==
    MkRow(n, [i \in 0..(n - 1) |->
                 SumF([j \in 0..(n - 1) |-> At(x, j) * W[i][j]], 0, n - 1)])

\* math.log2 followed by math.ceil, on a positive integer.
RECURSIVE FloorLog2(_)
FloorLog2(n) == IF n < 2 THEN 0 ELSE 1 + FloorLog2(n \div 2)
CeilLog2(n) == IF Pow2(FloorLog2(n)) = n THEN FloorLog2(n) ELSE FloorLog2(n) + 1

(***************************************************************************)
(* hadamard_transform_ref, lines 173-182 (after the dependency guard).     *)
(***************************************************************************)
ref_log_dim(dim) == CeilLog2(dim)
ref_dim_padded_Floor(dim) == Pow2(FloorLog2(dim))
ref_dim_padded(dim) == Pow2(ref_log_dim(dim))

hadamard_transform_ref_NoScale(x, scale) ==
    LET dim == Len(x)
        dim_padded == ref_dim_padded(dim)
        xp == IF dim # dim_padded THEN F_pad(x, dim_padded - dim) ELSE x
        out == F_linear(xp, dim_padded, hadamard_matrix(dim_padded))
    IN  SubSeq(out, 1, dim)
hadamard_transform_ref(x, scale) ==
    LET dim == Len(x)
        dim_padded == ref_dim_padded(dim)
        xp == IF dim # dim_padded THEN F_pad(x, dim_padded - dim) ELSE x
        out == F_linear(xp, dim_padded, hadamard_matrix(dim_padded))
        scaled == [p \in 1..dim_padded |-> out[p] * scale]
    IN  SubSeq(scaled, 1, dim)

(***************************************************************************)
(* Size Resolver (design document 4.1).                                    *)
(***************************************************************************)
\* Implementation-defined largest exponent k the resolver accepts.
k_max == 15

RECURSIVE ResolveK(_, _, _)
ResolveK(length, base, k) ==
    IF base * Pow2(k) >= length THEN k ELSE ResolveK(length, base, k + 1)
resolve_valid(length, base) == length > 0 /\ length <= base * Pow2(k_max)
padded_length(length, base) == base * Pow2(ResolveK(length, base, 0))
pad_amount(length, base) == padded_length(length, base) - length

(***************************************************************************)
(* Butterfly Core (design document 4.2).                                   *)
(***************************************************************************)
\* One pair update (a, b) -> (a + b, a - b).
butterfly_pair_Swapped(a, b) == <<a + b, b - a>>
butterfly_pair(a, b) == <<a + b, a - b>>

\* Stage s on a buffer of length M: blocks of size 2^(s+1); element i of the
\* first half of a block is paired with element i + 2^s.
butterfly_stage(buf, s) ==
    LET half == Pow2(s)
    IN  [p \in 1..Len(buf) |->
            LET i == p - 1
            IN  IF (i \div half) % 2 = 0
                THEN butterfly_pair(At(buf, i), At(buf, i + half))[1]
                ELSE butterfly_pair(At(buf, i - half), At(buf, i))[2]]

RECURSIVE butterfly_stages(_, _, _)
butterfly_stages(buf, s, k) ==
    IF s >= k THEN buf ELSE butterfly_stages(butterfly_stage(buf, s), s + 1, k)

\* transform_pow2 on a buffer of length 2^k: stages 0..k-1 in order.
transform_pow2(buf) == butterfly_stages(buf, 0, FloorLog2(Len(buf)))

(***************************************************************************)
(* Base-Factor Kernel (design document 4.3).  The extension's constant     *)
(* matrices are not at hand; symmetric Hadamard matrices of the four       *)
(* orders stand for them: Paley's second construction over GF(5), GF(9)    *)
(* and GF(13) for orders 12, 20 and 28, and H_2 (x) M_20 for order 40.     *)
(***************************************************************************)
\* Quadratic character of the prime field GF(q).
chi(q, a) ==
    LET r == ((a % q) + q) % q
    IN  IF r = 0 THEN 0
        ELSE IF \E y \in 1..(q - 1) : (y * y) % q = r THEN 1 ELSE -1

\* GF(9) = GF(3)[t]/(t^2 + 1); element a + b t is the integer a + 3 b.
gf9_sub(e, f) ==
    (((e % 3) - (f % 3) + 3) % 3) + 3 * ((((e \div 3) - (f \div 3)) + 3) % 3)
gf9_sq(e) ==
    LET a == e % 3
        b == e \div 3
    IN  ((a * a - b * b + 9) % 3) + 3 * ((2 * a * b) % 3)
chi9(e) == IF e = 0 THEN 0 ELSE IF \E y \in 1..8 : gf9_sq(y) = e THEN 1 ELSE -1

\* Entry (i, j) of the order-2(q+1) matrix S (x) [[1,1],[1,-1]] + I (x) [[1,-1],[-1,-1]],
\* S the symmetric conference matrix bordered around the Jacobsthal matrix Q.
paley2(Q, i, j) ==
    LET a == i \div 2
        s == i % 2
        b == j \div 2
        t == j % 2
        S == IF a = 0 /\ b = 0 THEN 0
             ELSE IF a = 0 \/ b = 0 THEN 1 ELSE Q[a - 1][b - 1]
    IN  S * (IF s = 1 /\ t = 1 THEN -1 ELSE 1)
          + (IF a = b THEN (IF s = 0 /\ t = 0 THEN 1 ELSE -1) ELSE 0)

\* The Jacobsthal matrices of GF(5), GF(9) and GF(13).
Q_5 == [a \in 0..4 |-> [b \in 0..4 |-> chi(5, a - b)]]
Q_9 == [a \in 0..8 |-> [b \in 0..8 |-> chi9(gf9_sub(a, b))]]
Q_13 == [a \in 0..12 |-> [b \in 0..12 |-> chi(13, a - b)]]

M_12 == [i \in 0..11 |-> [j \in 0..11 |-> paley2(Q_5, i, j)]]
M_20 == [i \in 0..19 |-> [j \in 0..19 |-> paley2(Q_9, i, j)]]
M_28 == [i \in 0..27 |-> [j \in 0..27 |-> paley2(Q_13, i, j)]]
M_40 == [i \in 0..39 |-> [j \in 0..39 |->
            (IF i >= 20 /\ j >= 20 THEN -1 ELSE 1) * M_20[i % 20][j % 20]]]
M_1 == [i \in 0..0 |-> [j \in 0..0 |-> 1]]

M_base(base) ==
    CASE base = 1 -> M_1
      [] base = 12 -> M_12
      [] base = 20 -> M_20
      [] base = 28 -> M_28
      [] base = 40 -> M_40

\* transform_base: the identity for base 1, the dense product M_base . buffer otherwise.
transform_base(buf, base) ==
    IF base = 1 THEN buf
    ELSE LET M == M_base(base)
         IN  MkRow(base, [i \in 0..(base - 1) |->
                 SumF([j \in 0..(base - 1) |-> M[i][j] * At(buf, j)], 0, base - 1)])

(***************************************************************************)
(* Variant Composer (design document 4.4) on a buffer of length base*2^k.  *)
(***************************************************************************)
\* Pass (a): transform_pow2 on each of the base interleaved lanes
\* (lane j holds the elements j, j + base, j + 2 base, ...).
compose_pass_pow2_Contiguous(buf, base) ==
    LET n == Len(buf) \div base
        lane(j) == SubSeq(buf, j * n + 1, (j + 1) * n)
        done == [j \in 0..(base - 1) |-> transform_pow2(lane(j))]
    IN  [p \in 1..Len(buf) |-> At(done[(p - 1) \div n], (p - 1) % n)]
compose_pass_pow2(buf, base) ==
    LET n == Len(buf) \div base
        lane(j) == MkRow(n, [b \in 0..(n - 1) |-> At(buf, b * base + j)])
        done == [j \in 0..(base - 1) |-> transform_pow2(lane(j))]
    IN  [p \in 1..Len(buf) |-> At(done[(p - 1) % base], (p - 1) \div base)]

\* Pass (b): transform_base on each of the 2^k contiguous blocks of length base.
compose_pass_base(buf, base) ==
    IF base = 1 THEN buf
    ELSE LET n == Len(buf) \div base
             block(b) == SubSeq(buf, b * base + 1, (b + 1) * base)
             done == [b \in 0..(n - 1) |-> transform_base(block(b), base)]
         IN  [p \in 1..Len(buf) |-> At(done[(p - 1) \div base], (p - 1) % base)]

variant_transform(buf, base) == compose_pass_base(compose_pass_pow2(buf, base), base)

(***************************************************************************)
(* Padding/Truncation Shim and the extension's entry points                *)
(* fast_hadamard_transform{,_12N,_20N,_28N,_40N} (design document 4.5).    *)
(***************************************************************************)
\* The values of a successful call: pad, transform, scale, truncate.
kernel_values(base, x, scale) ==
    LET L == Len(x)
        xp == F_pad(x, pad_amount(L, base))
        t == variant_transform(xp, base)
    IN  SubSeq([p \in 1..Len(t) |-> t[p] * scale], 1, L)

\* What a call returns and what it leaves in the caller's buffer.
\*   status  "ok" or the error raised
\*   out     the returned row (empty after an error)
\*   storage "input" when out is the caller's own storage, "fresh" when new
\*   buf     the caller's buffer after the call
kernel_error(x, err) == [status |-> err, out |-> <<>>, storage |-> "none", buf |-> x]
fast_hadamard_transform_kernel(base, x, scale, inplace) ==
    IF ~resolve_valid(Len(x), base) THEN kernel_error(x, "InvalidSize")
    ELSE IF inplace /\ pad_amount(Len(x), base) > 0
         THEN kernel_error(x, "InPlaceIncompatible")
    ELSE LET y == kernel_values(base, x, scale)
         IN  [status |-> "ok", out |-> y,
              storage |-> IF inplace THEN "input" ELSE "fresh",
              buf |-> IF inplace THEN y ELSE x]

(***************************************************************************)
(* The autograd adapters, lines 16-150.  forward records scale and inplace *)
(* on the context and calls its kernel; backward calls the same kernel on  *)
(* the upstream gradient with the recorded values and returns the tuple    *)
(* (dx, None).                                                             *)
(***************************************************************************)
forward_result(scale, inplace, r) ==
    [_hadamard_transform_scale |-> scale, _inplace |-> inplace, ret |-> r]

HadamardTransformFn_forward_SwappedArgs(x, scale, inplace) ==
    forward_result(scale, inplace,
        fast_hadamard_transform_kernel(1, x, IF inplace THEN 1 ELSE 0, scale # 0))
HadamardTransformFn_forward_NoInplace(x, scale, inplace) ==
    forward_result(scale, inplace, fast_hadamard_transform_kernel(1, x, scale, FALSE))
HadamardTransformFn_forward(x, scale, inplace) ==
    forward_result(scale, inplace, fast_hadamard_transform_kernel(1, x, scale, inplace))
HadamardTransform12NFn_forward(x, scale, inplace) ==
    forward_result(scale, inplace, fast_hadamard_transform_kernel(12, x, scale, inplace))
HadamardTransform20NFn_forward(x, scale, inplace) ==
    forward_result(scale, inplace, fast_hadamard_transform_kernel(20, x, scale, inplace))
HadamardTransform28NFn_forward(x, scale, inplace) ==
    forward_result(scale, inplace, fast_hadamard_transform_kernel(28, x, scale, inplace))
HadamardTransform40NFn_forward_NoInplace(x, scale, inplace) ==
    forward_result(scale, inplace, fast_hadamard_transform_kernel(40, x, scale, FALSE))
HadamardTransform40NFn_forward(x, scale, inplace) ==
    forward_result(scale, inplace, fast_hadamard_transform_kernel(40, x, scale, inplace))

\* One slot of the tuple backward returns.
None == [kind |-> "None", val |-> <<>>]
Tensor(v) == [kind |-> "Tensor", val |-> v]
backward_result(r, slots) == [ret |-> r, grads |-> IF r.status = "ok" THEN slots ELSE <<>>]

HadamardTransformFn_backward_DefaultScale(c, dout) ==
    LET r == fast_hadamard_transform_kernel(1, dout, 1, c._inplace)
    IN  backward_result(r, <<Tensor(r.out), None>>)
HadamardTransformFn_backward(c, dout) ==
    LET r == fast_hadamard_transform_kernel(1, dout, c._hadamard_transform_scale, c._inplace)
    IN  backward_result(r, <<Tensor(r.out), None>>)
HadamardTransform12NFn_backward(c, dout) ==
    LET r == fast_hadamard_transform_kernel(12, dout, c._hadamard_transform_scale, c._inplace)
    IN  backward_result(r, <<Tensor(r.out), None>>)
HadamardTransform20NFn_backward(c, dout) ==
    LET r == fast_hadamard_transform_kernel(20, dout, c._hadamard_transform_scale, c._inplace)
    IN  backward_result(r, <<Tensor(r.out), None>>)
HadamardTransform28NFn_backward(c, dout) ==
    LET r == fast_hadamard_transform_kernel(28, dout, c._hadamard_transform_scale, c._inplace)
    IN  backward_result(r, <<Tensor(r.out), None>>)
HadamardTransform40NFn_backward(c, dout) ==
    LET r == fast_hadamard_transform_kernel(40, dout, c._hadamard_transform_scale, c._inplace)
    IN  backward_result(r, <<Tensor(r.out), None>>)

\* The adapters are named by their base factor.
Fn_forward(fn, x, scale, inplace) ==
    CASE fn = 1 -> HadamardTransformFn_forward(x, scale, inplace)
      [] fn = 12 -> HadamardTransform12NFn_forward(x, scale, inplace)
      [] fn = 20 -> HadamardTransform20NFn_forward(x, scale, inplace)
      [] fn = 28 -> HadamardTransform28NFn_forward(x, scale, inplace)
      [] fn = 40 -> HadamardTransform40NFn_forward(x, scale, inplace)
Fn_backward(fn, c, dout) ==
    CASE fn = 1 -> HadamardTransformFn_backward(c, dout)
      [] fn = 12 -> HadamardTransform12NFn_backward(c, dout)
      [] fn = 20 -> HadamardTransform20NFn_backward(c, dout)
      [] fn = 28 -> HadamardTransform28NFn_backward(c, dout)
      [] fn = 40 -> HadamardTransform40NFn_backward(c, dout)

(***************************************************************************)
(* hadamard_transform_ref as called, lines 166-182: the dependency guard   *)
(* comes first; touched lists what was done to the input, in order.        *)
(***************************************************************************)
ref_touched(x) ==
    <<"shape", "reshape">>
      \o (IF Len(x) # ref_dim_padded(Len(x)) THEN <<"pad">> ELSE <<>>)
      \o <<"linear", "scale", "slice">>
ref_error(x, err, touched) ==
    [ret |-> kernel_error(x, err), touched |-> touched]
hadamard_transform_ref_call_LateGuard(h, x, scale) ==
    IF h = "None"
    THEN ref_error(x, "ImportError", SubSeq(ref_touched(x), 1, Len(ref_touched(x)) - 3))
    ELSE [ret |-> [status |-> "ok", out |-> hadamard_transform_ref(x, scale),
                   storage |-> "fresh", buf |-> x],
          touched |-> ref_touched(x)]
hadamard_transform_ref_call(h, x, scale) ==
    IF h = "None" THEN ref_error(x, "ImportError", <<>>)
    ELSE [ret |-> [status |-> "ok", out |-> hadamard_transform_ref(x, scale),
                   storage |-> "fresh", buf |-> x],
          touched |-> ref_touched(x)]

(***************************************************************************)
(* Inputs.                                                                 *)
(***************************************************************************)
DenseRows(n) == UNION {[1..L -> Vals] : L \in 1..n}
UnitRow(L, i, v) == [p \in 1..L |-> IF p = i THEN v ELSE 0]
UnitRows(L) == {UnitRow(L, i, v) : i \in 1..L, v \in {-1, 1}}
\* Lengths tried with a base-factor adapter: one below a supported size, a
\* supported size, and one above it.
BaseLens(base) == {base - 1, base, base + 1}
\* Rows handed to adapter fn by the functional wrappers: every row up to
\* MaxLen for base 1, rows with one entry at either end or in the middle for
\* the base-factor adapters.
EndRows(L) == {UnitRow(L, i, v) : i \in {1, (L + 1) \div 2, L}, v \in {-1, 1}}
RowsOf(fn) ==
    IF fn = 1 THEN {<<>>} \cup DenseRows(MaxLen)
    ELSE UNION {EndRows(L) : L \in BaseLens(fn)}

(***************************************************************************)
(* State.                                                                  *)
(***************************************************************************)
VARIABLES
    module,     \* "unloaded" | "loaded": the interface module
    hadamard,   \* the module global: "unset", "None" or "scipy"
    ctx,        \* context id -> what forward recorded for a live output
    call,       \* the last call made: operation, adapter, argument, options
    ret,        \* what that call returned and left in the caller's buffer
    grads,      \* the tuple the last backward returned
    touched,    \* what the last oracle call did to its input
    first,      \* the argument of the first of a chain of calls
    applied,    \* how many calls of that chain have run
    resolved,   \* the size resolver's and the oracle's padding of one length
    comp,       \* a variant composer run: buffer, passes done
    bfly        \* a butterfly core run: buffer, stage, pairs done

vars == <<module, hadamard, ctx, call, ret, grads, touched, first, applied,
          resolved, comp, bfly>>

CtxIds == {"c1", "c2"}
NoCtx == [fn |-> 0, _hadamard_transform_scale |-> 0, _inplace |-> FALSE, shape |-> 0]
NoCall == [op |-> "none", c |-> "none", fn |-> 0, arg |-> <<>>, scale |-> 0,
           inplace |-> FALSE]
NoRet == [status |-> "none", out |-> <<>>, storage |-> "none", buf |-> <<>>]
NoResolved == [length |-> 0, base |-> 0, padded_length |-> 0, pad_amount |-> 0,
               dim_padded |-> 0]
NoComp == [base |-> 0, input |-> <<>>, buf |-> <<>>, passes |-> <<>>]
NoBfly == [orig |-> <<>>, buf |-> <<>>, k |-> 0, stage |-> 0, done |-> {}, pc |-> "idle"]

\* No call made yet.
InitCalls ==
    /\ ctx = [c \in CtxIds |-> NoCtx]
    /\ call = NoCall
    /\ ret = NoRet
    /\ grads = <<>>
    /\ touched = <<>>
    /\ first = <<>>
    /\ applied = 0
InitCommon ==
    /\ InitCalls
    /\ resolved = NoResolved
    /\ comp = NoComp
    /\ bfly = NoBfly

(***************************************************************************)
(* The interface module: import, the functional wrappers, the oracle.      *)
(***************************************************************************)
Init ==
    /\ module = "unloaded"
    /\ hadamard = "unset"
    /\ InitCommon

\* Lines 3-13: the import of scipy's hadamard is guarded; the module loads
\* either way.
Import(installed) ==
    /\ module = "unloaded"
    /\ hadamard' = IF installed THEN "scipy" ELSE "None"
    /\ module' = "loaded"
    /\ UNCHANGED <<ctx, call, ret, grads, touched, first, applied, resolved, comp, bfly>>

\* <Adapter>.apply(x, scale, inplace): forward runs with a new context c.  The
\* context stays attached to the output when the call succeeds.
Apply(c, fn, x, scale, inplace) ==
    LET f == Fn_forward(fn, x, scale, inplace)
    IN  /\ call' = [op |-> "forward", c |-> c, fn |-> fn, arg |-> x, scale |-> scale,
                    inplace |-> inplace]
        /\ ret' = f.ret
        /\ ctx' = IF f.ret.status = "ok"
                  THEN [ctx EXCEPT ![c] = [fn |-> fn,
                            _hadamard_transform_scale |-> f._hadamard_transform_scale,
                            _inplace |-> f._inplace, shape |-> Len(f.ret.out)]]
                  ELSE ctx
        /\ grads' = <<>>
        /\ touched' = <<>>

\* hadamard_transform / hadamard_transform_12N / _20N / _28N / _40N on a row.
\* No state survives a call, so a run is one call on a fresh row (and, below,
\* one more on its result).
Transform(fn, x, scale, inplace) ==
    /\ module = "loaded"
    /\ call.op = "none"
    /\ Apply("c1", fn, x, scale, inplace)
    /\ first' = x
    /\ applied' = 1
    /\ UNCHANGED <<module, hadamard, resolved, comp, bfly>>

\* The same wrapper called again, with the same options, on what it returned.
TransformAgain ==
    /\ module = "loaded"
    /\ call.op = "forward"
    /\ applied = 1
    /\ ret.status = "ok"
    /\ Apply("c1", call.fn, ret.out, call.scale, call.inplace)
    /\ applied' = 2
    /\ UNCHANGED <<module, hadamard, first, resolved, comp, bfly>>

\* hadamard_transform_ref(x, scale).
Ref(x, scale) ==
    /\ module = "loaded"
    /\ call.op = "none"
    /\ LET r == hadamard_transform_ref_call(hadamard, x, scale)
       IN  /\ ret' = r.ret
           /\ touched' = r.touched
    /\ call' = [op |-> "ref", c |-> "none", fn |-> 1, arg |-> x, scale |-> scale,
                inplace |-> FALSE]
    /\ grads' = <<>>
    /\ first' = x
    /\ applied' = 0
    /\ UNCHANGED <<module, hadamard, ctx, resolved, comp, bfly>>

Next ==
    \/ \E installed \in BOOLEAN : Import(installed)
    \/ \E fn \in Bases : \E x \in RowsOf(fn) : \E scale \in Scales :
          \E inplace \in BOOLEAN : Transform(fn, x, scale, inplace)
    \/ TransformAgain
    \/ \E x \in DenseRows(MaxLen) : \E scale \in Scales : Ref(x, scale)

Spec == Init /\ [][Next]_vars

(***************************************************************************)
(* The adapters under the autograd engine: two outputs are alive at once,  *)
(* each with the context its forward filled in; the engine calls backward  *)
(* of either with a gradient of the output's shape.                        *)
(***************************************************************************)
\* Scales recorded on the contexts.
CtxScales == {1, -3}
\* Row lengths per adapter: 1..MaxLen for base 1; for a base factor, one that
\* needs padding and one that does not.
AutogradLens(fn) == IF fn = 1 THEN 1..MaxLen ELSE {fn - 1, fn}
ForwardRows(fn) == {UnitRow(L, L, 1) : L \in AutogradLens(fn)}
\* Upstream gradients of a given shape.
GradRows(L) == IF L <= MaxLen THEN [1..L -> Vals] ELSE {UnitRow(L, i, 1) : i \in 1..L}

InitAutograd ==
    /\ module = "loaded"
    /\ hadamard = "scipy"
    /\ InitCommon

\* y = <Adapter>.apply(x, scale, inplace) with context c; c2 is created after
\* c1, by a second call of the same adapter (its scale, inplace and row free).
Forward(c, fn, x, scale, inplace) ==
    /\ ctx[c] = NoCtx
    /\ c = "c2" => ctx["c1"] # NoCtx /\ ctx["c1"].fn = fn
    /\ Apply(c, fn, x, scale, inplace)
    /\ UNCHANGED <<module, hadamard, first, applied, resolved, comp, bfly>>

\* The engine calls <Adapter>.backward(ctx, dout) for the output of context c;
\* backward changes no context, so a run ends with one such call.
Backward(c, dout) ==
    /\ call.op = "forward"
    /\ ctx[c] # NoCtx
    /\ Len(dout) = ctx[c].shape
    /\ LET b == Fn_backward(ctx[c].fn, ctx[c], dout)
       IN  /\ ret' = b.ret
           /\ grads' = b.grads
    /\ call' = [op |-> "backward", c |-> c, fn |-> ctx[c].fn, arg |-> dout,
                scale |-> ctx[c]._hadamard_transform_scale, inplace |-> ctx[c]._inplace]
    /\ UNCHANGED <<module, hadamard, ctx, touched, first, applied, resolved, comp, bfly>>

NextAutograd ==
    \/ \E c \in CtxIds : \E fn \in Bases : \E x \in ForwardRows(fn) :
          \E scale \in CtxScales : \E inplace \in BOOLEAN : Forward(c, fn, x, scale, inplace)
    \/ \E c \in CtxIds : \E dout \in GradRows(ctx[c].shape) : Backward(c, dout)

SpecAutograd == InitAutograd /\ [][NextAutograd]_vars
(***************************************************************************)
(* The size computations on their own: the extension's size resolver and   *)
(* lines 174-177 of the oracle, applied to one length.                     *)
(***************************************************************************)
InitResolve ==
    /\ module = "loaded"
    /\ hadamard = "scipy"
    /\ InitCalls
    /\ comp = NoComp
    /\ bfly = NoBfly
    /\ resolved \in {[NoResolved EXCEPT !.length = L, !.base = b] :
                        L \in 1..MaxResolveLen, b \in Bases}

\* resolve(length, base) -> (padded_length, pad_amount).
Resolve ==
    /\ resolved.padded_length = 0
    /\ resolve_valid(resolved.length, resolved.base)
    /\ resolved' = [resolved EXCEPT
                      !.padded_length = padded_length(resolved.length, resolved.base),
                      !.pad_amount = pad_amount(resolved.length, resolved.base)]
    /\ UNCHANGED <<module, hadamard, ctx, call, ret, grads, touched, first, applied,
                   comp, bfly>>

\* dim_padded = 2 ** math.ceil(math.log2(dim)), the oracle's size (base 1).
RefPadding ==
    /\ resolved.dim_padded = 0
    /\ resolved.base = 1
    /\ resolved' = [resolved EXCEPT !.dim_padded = ref_dim_padded(resolved.length)]
    /\ UNCHANGED <<module, hadamard, ctx, call, ret, grads, touched, first, applied,
                   comp, bfly>>

NextResolve == Resolve \/ RefPadding
SpecResolve == InitResolve /\ [][NextResolve]_vars

(***************************************************************************)
(* The variant composer on its own: the two passes over one buffer of      *)
(* length base * 2^k, in either order.                                     *)
(***************************************************************************)
Ramp(L) == [p \in 1..L |-> ((p * p) % 5) - 2]
\* k <= MaxComposeK with a base factor, two more stages for base 1.
ComposeLens(base) ==
    {base * Pow2(k) : k \in 0..(IF base = 1 THEN MaxComposeK + 2 ELSE MaxComposeK)}
ComposeRows(base) ==
    UNION {{UnitRow(L, i, 1) : i \in 1..L} \cup {Ramp(L)} : L \in ComposeLens(base)}

InitComposer ==
    /\ module = "loaded"
    /\ hadamard = "scipy"
    /\ InitCalls
    /\ resolved = NoResolved
    /\ bfly = NoBfly
    /\ comp \in UNION {{[base |-> b, input |-> x, buf |-> x, passes |-> <<>>] :
                            x \in ComposeRows(b)} : b \in Bases}

\* Pass (a): transform_pow2 on every interleaved lane.
PassPow2 ==
    /\ \A p \in 1..Len(comp.passes) : comp.passes[p] # "a"
    /\ comp' = [comp EXCEPT !.buf = compose_pass_pow2(comp.buf, comp.base),
                            !.passes = Append(comp.passes, "a")]
    /\ UNCHANGED <<module, hadamard, ctx, call, ret, grads, touched, first, applied,
                   resolved, bfly>>

\* Pass (b): transform_base on every contiguous block.
PassBase ==
    /\ \A p \in 1..Len(comp.passes) : comp.passes[p] # "b"
    /\ comp' = [comp EXCEPT !.buf = compose_pass_base(comp.buf, comp.base),
                            !.passes = Append(comp.passes, "b")]
    /\ UNCHANGED <<module, hadamard, ctx, call, ret, grads, touched, first, applied,
                   resolved, bfly>>

NextComposer == PassPow2 \/ PassBase
SpecComposer == InitComposer /\ [][NextComposer]_vars

(***************************************************************************)
(* The butterfly core run by concurrent workers: within a stage the pair   *)
(* updates happen one at a time in any order; a barrier ends the stage.    *)
(***************************************************************************)
BflyRows(M) ==
    IF M <= MaxLen THEN [1..M -> Vals]
    ELSE {UnitRow(M, i, 1) : i \in 1..M} \cup {Ramp(M)}
\* The 0-based first elements of the pairs of stage s in a buffer of length M.
StagePairs(M, s) == {i \in 0..(M - 1) : (i \div Pow2(s)) % 2 = 0}

InitButterfly ==
    /\ module = "loaded"
    /\ hadamard = "scipy"
    /\ InitCalls
    /\ resolved = NoResolved
    /\ comp = NoComp
    /\ \E k \in 0..MaxStages : \E x \in BflyRows(Pow2(k)) :
          bfly = [orig |-> x, buf |-> x, k |-> k, stage |-> 0, done |-> {}, pc |-> "run"]

\* A worker replaces the pair (a, b) at (i, i + 2^stage) by (a + b, a - b).
PairUpdate(i) ==
    /\ bfly.pc = "run"
    /\ bfly.stage < bfly.k
    /\ i \in StagePairs(Len(bfly.buf), bfly.stage) \ bfly.done
    /\ LET j == i + Pow2(bfly.stage)
           ab == butterfly_pair(At(bfly.buf, i), At(bfly.buf, j))
       IN  bfly' = [bfly EXCEPT !.buf = [bfly.buf EXCEPT ![i + 1] = ab[1], ![j + 1] = ab[2]],
                                !.done = bfly.done \cup {i}]
    /\ UNCHANGED <<module, hadamard, ctx, call, ret, grads, touched, first, applied,
                   resolved, comp>>

\* The barrier: every pair of the stage is done; the next stage may start.
Barrier ==
    /\ bfly.pc = "run"
    /\ bfly.stage < bfly.k
    /\ bfly.done = StagePairs(Len(bfly.buf), bfly.stage)
    /\ bfly' = [bfly EXCEPT !.stage = bfly.stage + 1, !.done = {}]
    /\ UNCHANGED <<module, hadamard, ctx, call, ret, grads, touched, first, applied,
                   resolved, comp>>

\* All k stages have run.
Finish ==
    /\ bfly.pc = "run"
    /\ bfly.stage = bfly.k
    /\ bfly' = [bfly EXCEPT !.pc = "done"]
    /\ UNCHANGED <<module, hadamard, ctx, call, ret, grads, touched, first, applied,
                   resolved, comp>>

NextButterfly ==
    \/ \E i \in 0..(Len(bfly.buf) - 1) : PairUpdate(i)
    \/ Barrier
    \/ Finish
SpecButterfly == InitButterfly /\ [][NextButterfly]_vars
\* The workers and the barrier keep running until the call returns.
FairSpecButterfly == SpecButterfly /\ WF_vars(NextButterfly)

(***************************************************************************)
(* Properties of the functional wrappers and the oracle (Spec).            *)
(***************************************************************************)
IsTransform == call.op = "forward" /\ Len(call.arg) >= 1
Times(n, x) == [p \in 1..Len(x) |-> n * x[p]]

\* C1: hadamard_transform(x, scale) (base 1) on a row of length L >= 1 succeeds
\* out of place, and whenever it succeeds it returns the L-element row of the
\* oracle hadamard_transform_ref(x, scale): scale * H_N * (x padded with zeros
\* to the next power of two N), cut back to L.
C1_OracleAgreement ==
    (IsTransform /\ call.fn = 1) =>
        /\ ~call.inplace => ret.status = "ok"
        /\ ret.status = "ok" =>
              /\ Len(ret.out) = Len(call.arg)
              /\ ret.out = hadamard_transform_ref(call.arg, call.scale)
C1_Witness ==
    /\ IsTransform /\ call.fn = 1 /\ applied = 1
    /\ call.arg = <<1, -1, 1>> /\ call.scale = -3
    /\ ret.out = <<-3, -9, 3>>

\* C3 as stated: two plain transforms with scale 1 of a row of any length L
\* return padded_length * x on the first L elements.
C3_InvolutionAnyLength ==
    (applied = 2 /\ call.op = "forward" /\ call.fn = 1 /\ call.scale = 1
       /\ ret.status = "ok") =>
        ret.out = Times(padded_length(Len(first), 1), first)
\* C3, amended: two plain transforms with scale 1 of a row whose length L is a
\* power of two (so that nothing is padded or cut) return L * x.
C3_InvolutionPow2 ==
    (applied = 2 /\ call.op = "forward" /\ call.fn = 1 /\ call.scale = 1
       /\ ret.status = "ok" /\ pad_amount(Len(first), 1) = 0) =>
        ret.out = Times(Len(first), first)
C3_Witness ==
    /\ applied = 2 /\ call.op = "forward" /\ call.fn = 1 /\ call.scale = 1
    /\ first = <<1, 0, -1, 1>>
    /\ ret.out = <<4, 0, -4, 4>>

\* What the same call returns with the in-place flag flipped.
Flipped == Fn_forward(call.fn, call.arg, call.scale, ~call.inplace).ret

C8_MissingDependency ==
    /\ hadamard = "None" => module = "loaded"
    /\ (hadamard = "None" /\ call.op = "ref") =>
          /\ ret.status = "ImportError"
          /\ touched = <<>>
          /\ ret.buf = call.arg
    /\ (hadamard = "scipy" /\ call.op = "ref") => ret.status = "ok"
    /\ call.op = "forward" =>
          /\ ret.status # "ImportError"
          /\ (IsTransform /\ ~call.inplace) => ret.status = "ok"
C8_Witness ==
    /\ hadamard = "None" /\ module = "loaded"
    /\ call.op = "ref" /\ Len(call.arg) = 3
    /\ ret.status = "ImportError"

(***************************************************************************)
(* Properties of the adapters' backward (SpecAutograd).                    *)
(***************************************************************************)
\* Column j of the forward map x -> truncate(scale * H * pad(x)) of adapter fn
\* on rows of length L: the image of the j-th unit row.
ForwardMaps ==
    [fn \in Bases |-> [L \in AutogradLens(fn) |-> [scale \in CtxScales |->
        [j \in 1..L |-> kernel_values(fn, UnitRow(L, j, 1), scale)]]]]
RECURSIVE Dot(_, _, _)
Dot(a, b, n) == IF n = 0 THEN 0 ELSE a[n] * b[n] + Dot(a, b, n - 1)
\* The transpose of that map applied to g: element j is <column j, g>.
TransposeApplied(fn, L, scale, g) ==
    [j \in 1..L |-> Dot(ForwardMaps[fn][L][scale][j], g, L)]

\* C4: backward of every adapter returns dx = its own kernel applied to the
\* gradient with the scale and inplace its own forward recorded (whatever
\* another call recorded), and dx is the transpose of the forward map
\* x -> truncate(scale * H * pad(x)) applied to the gradient, padded or not.
C4_BackwardIsForward ==
    call.op = "backward" =>
        LET c == ctx[call.c]
        IN  /\ ret = fast_hadamard_transform_kernel(c.fn, call.arg,
                        c._hadamard_transform_scale, c._inplace)
            /\ ret.status = "ok"
            /\ Len(grads) >= 1 /\ grads[1] = Tensor(ret.out)
            /\ ret.out = TransposeApplied(c.fn, c.shape, c._hadamard_transform_scale,
                                          call.arg)
C4_Witness ==
    /\ call.op = "backward" /\ call.c = "c1" /\ call.fn = 12
    /\ Len(call.arg) = 11
    /\ ctx["c1"]._hadamard_transform_scale = -3
    /\ ctx["c2"] # NoCtx /\ ctx["c2"]._hadamard_transform_scale = 1
    /\ ret.status = "ok" /\ Len(ret.out) = 11

\* C5: backward returns one gradient slot per forward input (x, scale,
\* inplace): a gradient for x and None for scale and for inplace.
C5_ThreeGradientSlots ==
    call.op = "backward" =>
        /\ Len(grads) = 3
        /\ grads[1].kind = "Tensor"
        /\ grads[2] = None
        /\ grads[3] = None

(***************************************************************************)
(* Properties of the size resolver (SpecResolve).                          *)
(***************************************************************************)
\* The exponents that matter for a length: base * 2^k >= length from some k on.
Exponents(length) == 0..(FloorLog2(length) + 1)
IsSupported(n, base) == \E k \in Exponents(n) : n = base * Pow2(k)

\* C2: padded_length is the smallest base * 2^k (k >= 0) that is >= L, and
\* pad_amount = padded_length - L, which is 0 exactly when L is itself of the
\* form base * 2^k; for base 1 it is the oracle's 2 ** ceil(log2(L)).
C2_SmallestSupported ==
    LET L == resolved.length
        b == resolved.base
        P == resolved.padded_length
    IN  /\ P # 0 =>
              /\ IsSupported(P, b)
              /\ P >= L
              /\ \A k \in Exponents(L) : b * Pow2(k) >= L => b * Pow2(k) >= P
              /\ resolved.pad_amount = P - L
              /\ (resolved.pad_amount = 0) <=> IsSupported(L, b)
        /\ (P # 0 /\ resolved.dim_padded # 0) => P = resolved.dim_padded
C2_Witness ==
    /\ resolved.length = 100 /\ resolved.base = 1
    /\ resolved.padded_length = 128 /\ resolved.pad_amount = 28
    /\ resolved.dim_padded = 128

(***************************************************************************)
(* Properties of the variant composer (SpecComposer).                      *)
(***************************************************************************)
\* (A (x) B) . x for square A of order na and B of order nb, with the usual
\* Kronecker product: entry (r, c) is A[r div nb][c div nb] * B[r mod nb][c mod nb].
KronApply(A, na, B, nb, x) ==
    LET N == na * nb
    IN  MkRow(N, [r \in 0..(N - 1) |->
            SumF([c \in 0..(N - 1) |->
                     A[r \div nb][c \div nb] * B[r % nb][c % nb] * At(x, c)], 0, N - 1)])
BothPasses == Len(comp.passes) = 2
CompN == Len(comp.input) \div comp.base
H_n == hadamard_matrix(CompN)
M_b == M_base(comp.base)

\* C9 as stated: after both passes, in either order, the buffer is
\* (M_base (x) H_{2^k}) . input.
C9_ComposerIsMKronH ==
    BothPasses =>
        comp.buf = KronApply(M_b, comp.base, H_n, CompN, comp.input)
\* C9, amended: after pass (a) on the interleaved lanes and pass (b) on the
\* contiguous blocks, in either order, the buffer is (H_{2^k} (x) M_base) . input,
\* that is out[b*base + j] = sum H[b][b'] * M[j][j'] * in[b'*base + j']; for
\* base 1 this is the plain butterfly core's result.
C9_ComposerIsHKronM ==
    BothPasses =>
        /\ comp.buf = KronApply(H_n, CompN, M_b, comp.base, comp.input)
        /\ comp.base = 1 => comp.buf = transform_pow2(comp.input)
C9_Witness ==
    /\ BothPasses /\ comp.passes = <<"b", "a">>
    /\ comp.base = 12 /\ Len(comp.input) = 24
    /\ comp.input = UnitRow(24, 2, 1)
    /\ comp.buf # comp.input

(***************************************************************************)
(* Properties of the concurrent butterfly core (FairSpecButterfly).        *)
(***************************************************************************)
BflyDone == bfly.pc = "done"
\* H_M . original, H_M Sylvester's matrix H_2M = [[H_M, H_M], [H_M, -H_M]].
HTimes(x) == F_linear(x, Len(x), hadamard_matrix(Len(x)))

\* C10: whatever the order of the pair updates inside each stage, with a
\* barrier between stages, the run terminates, after exactly k stages, with
\* the buffer equal to H_M . original.
C10_ButterflyAnyInterleaving ==
    /\ [](BflyDone => (bfly.stage = bfly.k /\ bfly.buf = HTimes(bfly.orig)))
    /\ <>BflyDone
C10_Witness ==
    /\ BflyDone /\ bfly.k = 3
    /\ bfly.orig = UnitRow(8, 6, 1)
    /\ bfly.buf = <<1, -1, 1, -1, -1, 1, -1, 1>>

====
